---- MODULE Spec2Model ----
(***************************************************************************)
(* Model of scrapers/fast-scraper.js: the catalog is loaded, every entry   *)
(* passes the robots.txt gate under a p-limit of 10, the allowed entries   *)
(* are handed to the crawler, the crawler's request handler stages one     *)
(* JSON file per entry, and cleanUpAndMoveFiles curates the staged files   *)
(* into the datasets folder and removes ./storage.                         *)
(*                                                                         *)
(* Strings the code inspects (file names, api names, titles, robots.txt    *)
(* bodies) are sequences of one-character strings, so that replace,        *)
(* includes, endsWith, extname, basename and padStart are computed.        *)
(***************************************************************************)
EXTENDS Integers, Sequences, FiniteSets, TLC

VARIABLES
    pc,             \* where scrapeDocs is
    apis,           \* scrapeDocs: const apis (the parsed catalog)
    st,             \* per catalog index: the limit(...) job's state
    canScrapeResult,\* per catalog index: const canScrapeResult
    enqueuedCount,  \* checkRobotsAndEnqueue: let enqueuedCount
    returnedCount,  \* scrapeDocs: const enqueuedCount (-1: not yet assigned)
    addCalls,       \* number of crawler.addRequests calls made
    pendingAdd,     \* indices whose crawler.addRequests promise is not settled
    queue,          \* indices registered in the crawler's request queue
    task,           \* per catalog index: how the crawler settled the request, and
                    \* the document it fetched
    storage,        \* how much of ./storage/request_queues/default exists
    staging,        \* files of ./storage/request_queues/default
    datasetExists,  \* ./scrapers/datasets exists
    dataset,        \* files of ./scrapers/datasets
    todo,           \* cleanUpAndMoveFiles: entries of readdirSync still to visit
    now,            \* seconds elapsed on the wall clock since the run started
    log             \* console output, as a set of lines

vars == <<pc, apis, st, canScrapeResult, enqueuedCount, returnedCount,
          addCalls, pendingAdd, queue, task, storage, staging, datasetExists, dataset,
          todo, now, log>>

----------------------------------------------------------------------------
(* Bounds of the model *)

\* longest catalog drawn from Entries
MaxApis == 2
\* length of the catalog that overfills the limiter
BigLen == 11
\* seconds the wall clock may advance during the run
MaxTicks == 1

----------------------------------------------------------------------------
(* String helpers *)

Includes(s, sub) ==
    \E i \in 0..(Len(s) - Len(sub)) : SubSeq(s, i + 1, i + Len(sub)) = sub

EndsWith(s, suf) ==
    /\ Len(s) >= Len(suf)
    /\ SubSeq(s, Len(s) - Len(suf) + 1, Len(s)) = suf

Digit(d) == <<"0", "1", "2", "3", "4", "5", "6", "7", "8", "9">>[d + 1]

RECURSIVE ToStr(_)
ToStr(n) == IF n < 10 THEN <<Digit(n)>> ELSE ToStr(n \div 10) \o <<Digit(n % 10)>>

\* String.prototype.padStart(2, '0')
PadStart2(s) == IF Len(s) < 2 THEN <<"0">> \o s ELSE s

\* String.prototype.slice(-2)
SliceLast2(s) == IF Len(s) <= 2 THEN s ELSE SubSeq(s, Len(s) - 1, Len(s))

\* String.prototype.replace(/ /g, '_')
ReplaceSpaces(s) == [i \in 1..Len(s) |-> IF s[i] = " " THEN "_" ELSE s[i]]

DotJson == <<".", "j", "s", "o", "n">>

\* position of the last "." of a file name, 0 if there is none
LastDot(file) ==
    IF \E i \in 1..Len(file) : file[i] = "."
    THEN CHOOSE i \in 1..Len(file) :
            /\ file[i] = "."
            /\ \A j \in (i + 1)..Len(file) : file[j] # "."
    ELSE 0

\* path.extname: from the last "." on; empty when there is none or it leads
ExtName(file) ==
    IF LastDot(file) <= 1 THEN <<>> ELSE SubSeq(file, LastDot(file), Len(file))

\* path.basename(file, ext)
BaseName(file, ext) ==
    IF ext # <<>> /\ EndsWith(file, ext) /\ Len(file) > Len(ext)
    THEN SubSeq(file, 1, Len(file) - Len(ext))
    ELSE file

----------------------------------------------------------------------------
(* The environment: catalog entries, what their sites answer, the clock *)

UrlAllow    == "https://allow.example/docs"
UrlNoRobots == "https://norobots.example/docs"
UrlOpen     == "https://open.example/docs"
UrlPartial  == "https://partial.example/docs"
UrlDeny     == "https://deny.example/docs"
UrlDown     == "https://down.example/docs"
UrlSilent   == "https://silent.example/docs"

BodyAllowAll    == <<"D","i","s","a","l","l","o","w",":">>
BodyDisallowAll == <<"D","i","s","a","l","l","o","w",":"," ","/">>
BodyDisallowTmp == <<"D","i","s","a","l","l","o","w",":"," ","/","t","m","p">>

\* what fetch(robotsUrl) yields for each site: a response or an exception
RobotsFetch(url) ==
    CASE url = UrlAllow    -> [thrown |-> FALSE, ok |-> TRUE,  text |-> BodyAllowAll]
      [] url = UrlNoRobots -> [thrown |-> FALSE, ok |-> FALSE, text |-> <<>>]
      [] url = UrlOpen     -> [thrown |-> FALSE, ok |-> TRUE,  text |-> <<>>]
      [] url = UrlPartial  -> [thrown |-> FALSE, ok |-> TRUE,  text |-> BodyDisallowTmp]
      [] url = UrlDeny     -> [thrown |-> FALSE, ok |-> TRUE,  text |-> BodyDisallowAll]
      [] OTHER             -> [thrown |-> TRUE,  ok |-> FALSE, text |-> <<>>]

\* fetch(robotsUrl) is called without a signal or a timeout: it settles
\* only when the site answers or the connection fails
FetchSettles(url) == url # UrlSilent

Entries == {
    [API_Name |-> <<"A", " ", "B">>, Official_Documentation_URL |-> UrlAllow],
    [API_Name |-> <<"A", "_", "B">>, Official_Documentation_URL |-> UrlNoRobots],
    [API_Name |-> <<"C">>,           Official_Documentation_URL |-> UrlOpen],
    [API_Name |-> <<"D">>,           Official_Documentation_URL |-> UrlDeny],
    [API_Name |-> <<"E">>,           Official_Documentation_URL |-> UrlDown] }

\* catalogs of distinct entries, up to MaxApis long
SmallCatalogs ==
    UNION { { c \in [1..n -> Entries] : \A i, j \in 1..n : i # j => c[i] # c[j] }
            : n \in 0..MaxApis }

\* a catalog longer than the limiter is wide: one allowed site, the rest
\* disallowing "/tmp"
BigCatalog ==
    [i \in 1..BigLen |->
        [API_Name |-> <<"P">> \o ToStr(i),
         Official_Documentation_URL |-> IF i = 1 THEN UrlAllow ELSE UrlPartial]]

\* catalogs with a site that accepts the connection and never answers
SilentCatalogs ==
    LET silent == [API_Name |-> <<"F">>, Official_Documentation_URL |-> UrlSilent]
        open   == [API_Name |-> <<"C">>, Official_Documentation_URL |-> UrlOpen]
    IN  { <<silent>>, <<open, silent>> }

Catalogs == SmallCatalogs \cup {BigCatalog} \cup SilentCatalogs

\* the local time when the run starts: 2 November 2026, 09:05:59
StartTime == [year |-> 2026, month |-> 10, date |-> 2,
              hours |-> 9, minutes |-> 5, seconds |-> 59]

\* new Date(): the local time `t` seconds after the start
DateAt(t) ==
    LET s == StartTime.seconds + t
        m == StartTime.minutes + (s \div 60)
    IN  [StartTime EXCEPT !.seconds = s % 60, !.minutes = m % 60,
                          !.hours = StartTime.hours + (m \div 60)]


\* generateTimestamp: MMDDYYHHMMSS of the local time d
generateTimestamp(d) ==
    LET month   == PadStart2(ToStr(d.month + 1))
        day     == PadStart2(ToStr(d.date))
        year    == SliceLast2(ToStr(d.year))
        hours   == PadStart2(ToStr(d.hours))
        minutes == PadStart2(ToStr(d.minutes))
        seconds == PadStart2(ToStr(d.seconds))
    IN  month \o day \o year \o hours \o minutes \o seconds

\* `${basename}_${timestamp}${extname}`
NewFileName(file, timestamp) ==
    LET extname  == ExtName(file)
        basename == BaseName(file, extname)
    IN  basename \o <<"_">> \o timestamp \o extname

----------------------------------------------------------------------------
(* Documents the crawler hands to requestHandler, and file contents *)

TitleDocs     == <<"D", "o", "c", "s">>
TitleNotFound == <<"4", "0", "4", " ", "N", "o", "t", " ", "F", "o", "u", "n", "d">>
TextBody      == <<"t", "e", "x", "t">>

\* $('title').text() and $('body').text().trim() of the fetched document
Pages == { [title |-> TitleDocs,     content |-> TextBody],
           [title |-> TitleNotFound, content |-> TextBody],
           [title |-> TitleDocs,     content |-> <<>>] }

\* a request the crawler has not handled yet
NoPage == [title |-> <<>>, content |-> <<>>]
NotHandled == [state |-> "none", page |-> NoPage]

\* JSON.stringify of a record / a file that is no JSON text
JSONStringify(data) == [json |-> TRUE, value |-> data]
NoData == [apiName |-> <<>>, url |-> "", title |-> <<>>, content |-> <<>>]
CorruptText == [json |-> FALSE, value |-> NoData]

\* JSON.parse succeeds exactly on JSON text
ParseThrows(text) == ~text.json
JSONParse(text) == text.value

EmptyDir == <<>>

\* a directory with `file` written (created or overwritten) / removed
WriteFile(dir, file, text) ==
    [f \in (DOMAIN dir) \cup {file} |-> IF f = file THEN text ELSE dir[f]]
RemoveFile(dir, file) == [f \in (DOMAIN dir) \ {file} |-> dir[f]]

\* the set of orders in which readdirSync may list a directory
Listings(dir) ==
    LET n == Cardinality(DOMAIN dir)
    IN  { l \in [1..n -> DOMAIN dir] : \A i, j \in 1..n : i # j => l[i] # l[j] }

----------------------------------------------------------------------------
(* State before scrapeDocs starts *)

OldJson  == <<"o", "l", "d">> \o DotJson
ABJson   == <<"A", "_", "B">> \o DotJson

\* a record accepted by an earlier run
OldRecord == JSONStringify([apiName |-> <<"A", " ", "B">>, url |-> UrlAllow,
                            title |-> <<"O", "l", "d">>, content |-> TextBody])

\* ./storage/request_queues/default as an earlier run may have left it
InitialStagings == { EmptyDir, WriteFile(EmptyDir, OldJson, CorruptText) }

\* ./scrapers/datasets as earlier runs may have left it; the suffixed file
\* is one stored when the clock read the same MMDDYYHHMMSS
InitialDatasets ==
    { EmptyDir,
      WriteFile(EmptyDir, ABJson, OldRecord),
      WriteFile(WriteFile(EmptyDir, ABJson, OldRecord),
                NewFileName(ABJson, generateTimestamp(StartTime)), OldRecord) }

Init ==
    /\ pc = "load"
    /\ apis = <<>>
    /\ st = <<>>
    /\ canScrapeResult = <<>>
    /\ enqueuedCount = 0
    /\ returnedCount = -1
    /\ addCalls = 0
    /\ pendingAdd = {}
    /\ queue = {}
    /\ task = <<>>
    /\ storage \in 0..3
    /\ staging \in (IF storage = 3 THEN InitialStagings ELSE {EmptyDir})
    /\ datasetExists \in BOOLEAN
    /\ dataset \in (IF datasetExists THEN InitialDatasets ELSE {EmptyDir})
    /\ todo = <<>>
    /\ now = 0
    /\ log = {}

----------------------------------------------------------------------------
(* Console output *)

Line(msg)          == [msg |-> msg, url |-> "", file |-> <<>>]
UrlLine(msg, url)  == [msg |-> msg, url |-> url, file |-> <<>>]
FileLine(msg, f)   == [msg |-> msg, url |-> "", file |-> f]

----------------------------------------------------------------------------
(* CatalogLoader: parseCSV, then checkRobotsAndEnqueue hands every entry *)
(* to the limiter                                                        *)

ParseCSV ==
    /\ pc = "load"
    /\ \E records \in Catalogs :
        /\ apis' = records
        /\ st' = [i \in 1..Len(records) |-> "queued"]
        /\ canScrapeResult' = [i \in 1..Len(records) |-> "pending"]
        /\ task' = [i \in 1..Len(records) |-> NotHandled]
    /\ pc' = "enqueue"
    /\ log' = log \cup {Line("Loaded API URLs.")}
    /\ UNCHANGED <<enqueuedCount, returnedCount, addCalls, pendingAdd, queue,
                   storage, staging, datasetExists, dataset, todo, now>>

\* the read stream or the parser emits 'error': scrapeDocs rejects
ParseCSVError ==
    /\ pc = "load"
    /\ pc' = "failed"
    /\ UNCHANGED <<apis, st, canScrapeResult, enqueuedCount, returnedCount,
                   addCalls, pendingAdd, queue, task, storage, staging,
                   datasetExists, dataset, todo, now, log>>

----------------------------------------------------------------------------
(* CrawlPolicyGate *)

\* the value canScrape's promise resolves to
canScrape(url) ==
    LET response == RobotsFetch(url)
    IN  IF response.thrown THEN "undefined"
        ELSE IF response.ok
             THEN (IF Includes(response.text, BodyDisallowAll) THEN "false" ELSE "true")
             ELSE "true"

\* what canScrape writes to the console
canScrapeLog(url) ==
    LET response == RobotsFetch(url)
    IN  IF response.thrown THEN {UrlLine("Error checking robots.txt", url)}
        ELSE IF response.ok THEN {}
        ELSE {UrlLine("Could not fetch robots.txt. Defaulting to allow.", url)}

\* if (canScrapeResult)
Truthy(v) == v = "true"

----------------------------------------------------------------------------
(* EnqueueCoordinator: checkRobotsAndEnqueue *)

\* pLimit(10)
Concurrency == 10

ActiveCount == Cardinality({i \in DOMAIN st : st[i] = "checking"})

\* variant: the admission test is off by one
LimitAdmitsOffByOne(activeCount) == activeCount <= Concurrency

\* the limiter runs a queued job only while fewer than Concurrency are active
LimitAdmits(activeCount) == activeCount < Concurrency

\* the limiter starts its oldest queued job: canScrape is called
StartCheck(i) ==
    /\ st[i] = "queued"
    /\ \A j \in 1..(i - 1) : st[j] # "queued"
    /\ LimitAdmits(ActiveCount)
    /\ st' = [st EXCEPT ![i] = "checking"]
    /\ UNCHANGED <<pc, apis, canScrapeResult, enqueuedCount, returnedCount,
                   addCalls, pendingAdd, queue, task, storage, staging,
                   datasetExists, dataset, todo, now, log>>

\* variant: the increment sits outside the if
CountAfterEveryJob(count, result) == count + 1

\* enqueuedCount after the job for a result
CountAfter(count, result) == IF Truthy(result) THEN count + 1 ELSE count

\* canScrape has resolved: the rest of the job runs
FinishCheck(i) ==
    /\ st[i] = "checking"
    /\ FetchSettles(apis[i].Official_Documentation_URL)
    /\ LET url    == apis[i].Official_Documentation_URL
           result == canScrape(url)
       IN  /\ canScrapeResult' = [canScrapeResult EXCEPT ![i] = result]
           /\ enqueuedCount' = CountAfter(enqueuedCount, result)
           /\ IF Truthy(result)
              THEN /\ pendingAdd' = pendingAdd \cup {i}
                   /\ addCalls' = addCalls + 1
                   /\ log' = log \cup canScrapeLog(url) \cup {UrlLine("Enqueued", url)}
              ELSE /\ UNCHANGED <<pendingAdd, addCalls>>
                   /\ log' = log \cup canScrapeLog(url)
                               \cup {UrlLine("Skipping: Not allowed by robots.txt", url)}
    /\ st' = [st EXCEPT ![i] = "done"]
    /\ UNCHANGED <<pc, apis, returnedCount, queue, task, storage, staging,
                   datasetExists, dataset, todo, now>>

\* the promise crawler.addRequests returned settles: the request is queued
AddRequestsSettle(i) ==
    /\ i \in pendingAdd
    /\ pc \in {"enqueue", "run"}
    /\ pendingAdd' = pendingAdd \ {i}
    /\ queue' = queue \cup {i}
    /\ UNCHANGED <<pc, apis, st, canScrapeResult, enqueuedCount, returnedCount,
                   addCalls, task, storage, staging, datasetExists, dataset,
                   todo, now, log>>

\* variant: Promise.race in place of Promise.all
AnyResolved(jobs) == \E i \in DOMAIN jobs : jobs[i] = "done"

\* await Promise.all(promises)
AllResolved(jobs) == \A i \in DOMAIN jobs : jobs[i] = "done"

----------------------------------------------------------------------------
(* DatasetCurator: cleanUpAndMoveFiles *)

\* variant: rmSync without `recursive` throws for every directory
RmThrowsNotRecursive(level) == TRUE

\* fs.rmSync('./storage', { recursive: true }) throws when ./storage is absent
RmThrows(level) == level = 0

\* variant: no try/catch around rmSync, the exception leaves scrapeDocs
CleanUpStorageOnlyNoCatch ==
    /\ IF RmThrows(storage)
       THEN /\ UNCHANGED <<storage, staging>>
            /\ log' = log \cup {Line("No requests were enqueued.")}
            /\ pc' = "aborted"
       ELSE /\ storage' = 0
            /\ staging' = EmptyDir
            /\ log' = log \cup {Line("No requests were enqueued."),
                                Line("Deleted the storage folder since no requests were enqueued."),
                                Line("Scraping completed.")}
            /\ pc' = "done"
    /\ UNCHANGED <<datasetExists, dataset, todo>>

\* cleanUpAndMoveFiles(true), then scrapeDocs returns and completion is logged
CleanUpStorageOnly ==
    /\ IF RmThrows(storage)
       THEN /\ UNCHANGED <<storage, staging>>
            /\ log' = log \cup {Line("No requests were enqueued."),
                                Line("Error deleting the storage folder"),
                                Line("Scraping completed.")}
       ELSE /\ storage' = 0
            /\ staging' = EmptyDir
            /\ log' = log \cup {Line("No requests were enqueued."),
                                Line("Deleted the storage folder since no requests were enqueued."),
                                Line("Scraping completed.")}
    /\ pc' = "done"
    /\ UNCHANGED <<datasetExists, dataset, todo>>

\* checkRobotsAndEnqueue returns 0
EnqueueReturnZero ==
    /\ pc = "enqueue"
    /\ AllResolved(st)
    /\ enqueuedCount = 0
    /\ returnedCount' = enqueuedCount
    /\ CleanUpStorageOnly
    /\ UNCHANGED <<apis, st, canScrapeResult, enqueuedCount, addCalls,
                   pendingAdd, queue, task, now>>

\* checkRobotsAndEnqueue returns a count other than 0: crawler.run() is called
EnqueueReturnRun ==
    /\ pc = "enqueue"
    /\ AllResolved(st)
    /\ enqueuedCount # 0
    /\ returnedCount' = enqueuedCount
    /\ pc' = "run"
    /\ UNCHANGED <<apis, st, canScrapeResult, enqueuedCount, addCalls,
                   pendingAdd, queue, task, storage, staging, datasetExists,
                   dataset, todo, now, log>>

----------------------------------------------------------------------------
(* PageRecorder: the crawler's requestHandler and failedRequestHandler *)

StagedName(apiName) == ReplaceSpaces(apiName) \o DotJson

\* fs.mkdirSync('./storage/request_queues/default') is not recursive: it
\* throws when ./storage/request_queues is absent
MkdirThrows(level) == level < 2

\* the record requestHandler writes for catalog entry i and a document
PageRecord(i, page) ==
    [apiName |-> apis[i].API_Name,
     url     |-> apis[i].Official_Documentation_URL,
     title   |-> page.title,
     content |-> page.content]

\* error.message of a request that could not be fetched, and of mkdirSync
FetchError == "request failed"
MkdirError == "ENOENT: no such file or directory, mkdir"

\* variant: the failure callback clears the staging area
FailedRequestHandlerClearsStaging(i, message) ==
    /\ task' = [task EXCEPT ![i] = [state |-> "failed", page |-> NoPage]]
    /\ log' = log \cup {UrlLine("Failed to scrape: " \o message,
                                apis[i].Official_Documentation_URL)}
    /\ staging' = EmptyDir
    /\ UNCHANGED storage

\* failedRequestHandler: the request could not be handled
FailedRequestHandler(i, message) ==
    /\ task' = [task EXCEPT ![i] = [state |-> "failed", page |-> NoPage]]
    /\ log' = log \cup {UrlLine("Failed to scrape: " \o message,
                                apis[i].Official_Documentation_URL)}
    /\ UNCHANGED <<storage, staging>>

\* variant: the folder is made anew for every document
RequestHandlerRemakesFolder(i, page) ==
    IF MkdirThrows(storage)
    THEN FailedRequestHandler(i, MkdirError)
    ELSE /\ storage' = 3
         /\ staging' = WriteFile(EmptyDir, StagedName(apis[i].API_Name),
                                 JSONStringify(PageRecord(i, page)))
         /\ task' = [task EXCEPT ![i] = [state |-> "handled", page |-> page]]
         /\ log' = log \cup {UrlLine("Scraped", apis[i].Official_Documentation_URL)}

\* requestHandler for a fetched document; when it throws the crawler
\* gives the request to failedRequestHandler
RequestHandler(i, page) ==
    IF storage # 3 /\ MkdirThrows(storage)
    THEN FailedRequestHandler(i, MkdirError)
    ELSE /\ storage' = 3
         /\ staging' = WriteFile(staging, StagedName(apis[i].API_Name),
                                 JSONStringify(PageRecord(i, page)))
         /\ task' = [task EXCEPT ![i] = [state |-> "handled", page |-> page]]
         /\ log' = log \cup {UrlLine("Scraped", apis[i].Official_Documentation_URL)}

\* crawler.run() has been called: it is called when, and only when, the
\* count returned to scrapeDocs is not 0
CrawlerStarted == returnedCount > 0

\* the crawler fetched the document of a queued request
FetchOk(i) ==
    /\ CrawlerStarted
    /\ i \in queue
    /\ task[i] = NotHandled
    /\ \E page \in Pages : RequestHandler(i, page)
    /\ UNCHANGED <<pc, apis, st, canScrapeResult, enqueuedCount, returnedCount,
                   addCalls, pendingAdd, queue, datasetExists, dataset, todo, now>>

\* the crawler could not fetch the document of a queued request
FetchFail(i) ==
    /\ CrawlerStarted
    /\ i \in queue
    /\ task[i] = NotHandled
    /\ FailedRequestHandler(i, FetchError)
    /\ UNCHANGED <<pc, apis, st, canScrapeResult, enqueuedCount, returnedCount,
                   addCalls, pendingAdd, queue, datasetExists, dataset, todo, now>>

----------------------------------------------------------------------------
(* DatasetCurator, normal mode *)

NotFoundMarker == <<"4", "0", "4">>

\* variant: the content test is missing
IsInvalidIgnoringContent(data) ==
    \/ data.apiName = <<>>
    \/ data.url = ""
    \/ data.title = <<>>
    \/ Includes(data.title, NotFoundMarker)

\* !data.apiName || !data.url || !data.title || !data.content
\*   || data.title.includes('404')
IsInvalid(data) ==
    \/ data.apiName = <<>>
    \/ data.url = ""
    \/ data.title = <<>>
    \/ data.content = <<>>
    \/ Includes(data.title, NotFoundMarker)

\* the name a valid staged file is moved to
DestinationName(file, dir, t) ==
    IF file \in DOMAIN dir
    THEN NewFileName(file, generateTimestamp(DateAt(t)))
    ELSE file

\* variant: crawler.run() is called without await
RunNotAwaited == TRUE

\* await crawler.run(): the promise resolves when every request handed to
\* the crawler has been handled or has failed
RunSettled ==
    /\ pendingAdd = {}
    /\ \A i \in queue : task[i] # NotHandled

\* crawler.run() resolves; cleanUpAndMoveFiles() creates the datasets folder
\* and lists the staged files; readdirSync throws when the folder is absent
RunReturn ==
    /\ pc = "run"
    /\ RunSettled
    /\ datasetExists' = TRUE
    /\ IF storage # 3
       THEN /\ pc' = "aborted"
            /\ todo' = todo
       ELSE /\ pc' = "curate"
            /\ todo' \in Listings(staging)
    /\ UNCHANGED <<apis, st, canScrapeResult, enqueuedCount, returnedCount,
                   addCalls, pendingAdd, queue, task, storage, staging, dataset,
                   now, log>>

\* variant: one try/catch around the whole forEach, so that a file that
\* does not parse ends the loop
CurateFileStopsAtParseError ==
    /\ pc = "curate"
    /\ todo # <<>>
    /\ LET file == Head(todo)
           text == staging[file]
       IN  IF ~EndsWith(file, DotJson)
           THEN UNCHANGED <<staging, dataset, log>>
           ELSE IF ParseThrows(text)
           THEN /\ log' = log \cup {FileLine("Error reading or parsing file", file)}
                /\ todo' = <<>>
                /\ UNCHANGED <<staging, dataset>>
           ELSE IF IsInvalid(JSONParse(text))
           THEN /\ staging' = RemoveFile(staging, file)
                /\ log' = log \cup {FileLine("Deleting invalid file", file)}
                /\ UNCHANGED dataset
           ELSE LET target == DestinationName(file, dataset, now)
                IN  /\ dataset' = WriteFile(dataset, target, text)
                    /\ staging' = RemoveFile(staging, file)
                    /\ log' = log \cup
                         {IF target = file
                          THEN FileLine("Moved valid file", file)
                          ELSE FileLine("File with the same name exists. Moved and renamed", target)}
    /\ (ParseThrows(staging[Head(todo)]) /\ EndsWith(Head(todo), DotJson)) \/ todo' = Tail(todo)
    /\ UNCHANGED <<pc, apis, st, canScrapeResult, enqueuedCount, returnedCount,
                   addCalls, pendingAdd, queue, task, storage, datasetExists, now>>

\* one turn of the forEach over the staged files
CurateFile ==
    /\ pc = "curate"
    /\ todo # <<>>
    /\ LET file == Head(todo)
           text == staging[file]
       IN  IF ~EndsWith(file, DotJson)
           THEN UNCHANGED <<staging, dataset, log>>
           ELSE IF ParseThrows(text)
           THEN /\ log' = log \cup {FileLine("Error reading or parsing file", file)}
                /\ UNCHANGED <<staging, dataset>>
           ELSE IF IsInvalid(JSONParse(text))
           THEN /\ staging' = RemoveFile(staging, file)
                /\ log' = log \cup {FileLine("Deleting invalid file", file)}
                /\ UNCHANGED dataset
           ELSE LET target == DestinationName(file, dataset, now)
                IN  /\ dataset' = WriteFile(dataset, target, text)
                    /\ staging' = RemoveFile(staging, file)
                    /\ log' = log \cup
                         {IF target = file
                          THEN FileLine("Moved valid file", file)
                          ELSE FileLine("File with the same name exists. Moved and renamed", target)}
    /\ todo' = Tail(todo)
    /\ UNCHANGED <<pc, apis, st, canScrapeResult, enqueuedCount, returnedCount,
                   addCalls, pendingAdd, queue, task, storage, datasetExists, now>>

\* the forEach is over: ./storage is removed, scrapeDocs returns and
\* completion is logged
CurateFinish ==
    /\ pc = "curate"
    /\ todo = <<>>
    /\ IF RmThrows(storage)
       THEN /\ UNCHANGED <<storage, staging>>
            /\ log' = log \cup {Line("Error deleting the storage folder"),
                                Line("Scraping completed.")}
       ELSE /\ storage' = 0
            /\ staging' = EmptyDir
            /\ log' = log \cup {Line("Deleted the storage folder after moving valid files."),
                                Line("Scraping completed.")}
    /\ pc' = "done"
    /\ UNCHANGED <<apis, st, canScrapeResult, enqueuedCount, returnedCount,
                   addCalls, pendingAdd, queue, task, datasetExists, dataset,
                   todo, now>>

\* a second passes on the wall clock
Tick ==
    /\ now < MaxTicks
    /\ pc \in {"run", "curate"}
    /\ now' = now + 1
    /\ UNCHANGED <<pc, apis, st, canScrapeResult, enqueuedCount, returnedCount,
                   addCalls, pendingAdd, queue, task, storage, staging,
                   datasetExists, dataset, todo, log>>

----------------------------------------------------------------------------

Next ==
    \/ ParseCSV
    \/ ParseCSVError
    \/ \E i \in DOMAIN st : StartCheck(i)
    \/ \E i \in DOMAIN st : FinishCheck(i)
    \/ \E i \in DOMAIN st : AddRequestsSettle(i)
    \/ EnqueueReturnZero
    \/ EnqueueReturnRun
    \/ \E i \in DOMAIN st : FetchOk(i)
    \/ \E i \in DOMAIN st : FetchFail(i)
    \/ RunReturn
    \/ CurateFile
    \/ CurateFinish
    \/ Tick

Spec == Init /\ [][Next]_vars

\* the event loop runs every callback that is ready
FairSpec == Spec /\ WF_vars(Next)

----------------------------------------------------------------------------
(* Properties *)

Logged(msg) == \E l \in log : l.msg = msg

\* C1: when the run has ended, ./storage and with it the staging area
\* ./storage/request_queues/default is gone: after a completed run, in zero
\* mode or in normal mode, nothing of ./storage exists; a run that ended in
\* an exception has no staging area either.
C1_StagingGoneAfterRun ==
    /\ pc = "done" => storage = 0 /\ staging = EmptyDir
    /\ pc = "aborted" => storage # 3

\* a normal-mode run with a failed fetch task and a staged file has completed
C1_Witness ==
    /\ pc = "done"
    /\ Logged("Deleted the storage folder after moving valid files.")
    /\ Logged("Moved valid file")
    /\ \E i \in DOMAIN task : task[i].state = "failed"

\* C2: a curation step keeps every file of the datasets folder, with its
\* content, and a step that stores a record adds a file name that was not
\* there before.
C2_CollisionAppendOnly ==
    [][pc = "curate" =>
        /\ \A f \in DOMAIN dataset : f \in DOMAIN dataset' /\ dataset'[f] = dataset[f]
        /\ \/ DOMAIN dataset' = DOMAIN dataset
           \/ Cardinality(DOMAIN dataset') = Cardinality(DOMAIN dataset) + 1]_vars

\* C3: canScrape resolves to false exactly when robots.txt was fetched with
\* a success status and its body contains "Disallow: /", and to true in every
\* other case: non-success status, or an exception while fetching.
C3_DenyOnlyOnFetchedDisallow ==
    \A i \in DOMAIN canScrapeResult :
        canScrapeResult[i] # "pending" =>
            LET response == RobotsFetch(apis[i].Official_Documentation_URL)
                denies   == /\ ~response.thrown
                            /\ response.ok
                            /\ Includes(response.text, BodyDisallowAll)
            IN  canScrapeResult[i] = (IF denies THEN "false" ELSE "true")

\* C4: at most 10 robots.txt checks are in flight at any time.
C4_AtMostTenInFlight ==
    Cardinality({i \in DOMAIN st : st[i] = "checking"}) <= 10

\* the limiter is full and an entry is waiting
C4_Witness ==
    /\ Cardinality({i \in DOMAIN st : st[i] = "checking"}) = 10
    /\ \E i \in DOMAIN st : st[i] = "queued"

\* C5: the count is at all times the number of entries that resolved as
\* allowed and the number of addRequests calls made; the entries with a
\* request are exactly the allowed ones; and the count is returned only when
\* every entry has been evaluated.
C5_CountIsAllowedIsRegistered ==
    LET allowed == {i \in DOMAIN canScrapeResult : canScrapeResult[i] = "true"}
    IN  /\ enqueuedCount = Cardinality(allowed)
        /\ addCalls = enqueuedCount
        /\ pendingAdd \cup queue = allowed
        /\ pendingAdd \cap queue = {}
        /\ returnedCount >= 0 =>
              /\ returnedCount = Cardinality(allowed)
              /\ \A i \in DOMAIN apis : canScrapeResult[i] # "pending"

\* two entries, one denied and one allowed: the count returned is 1 and one
\* request was registered
C5_Witness ==
    /\ Len(apis) = 2
    /\ returnedCount = 1
    /\ addCalls = 1
    /\ \E i \in DOMAIN apis : canScrapeResult[i] = "false"
    /\ Logged("Skipping: Not allowed by robots.txt")

\* C6: once the count has been returned to scrapeDocs, every entry's check
\* has completed and the count no longer changes.
C6_ReturnIsJoinBarrier ==
    returnedCount >= 0 =>
        /\ \A i \in DOMAIN st : st[i] = "done"
        /\ enqueuedCount = returnedCount

\* the count has been returned for a catalog that overfilled the limiter
C6_Witness ==
    /\ returnedCount = 1
    /\ Len(apis) > Concurrency

C7_Valid(data) ==
    /\ data.apiName # <<>>
    /\ data.url # ""
    /\ data.title # <<>>
    /\ data.content # <<>>
    /\ ~Includes(data.title, <<"4", "0", "4">>)

\* C7: the forEach turn for a staged record that parses removes it from the
\* staging area; if the record is not valid the datasets folder is unchanged;
\* if it is valid the datasets folder gains one file, holding the staged text.
C7_CurationKeepsExactlyValid ==
    [][(/\ pc = "curate"
        /\ todo # <<>>
        /\ todo' # todo
        /\ EndsWith(Head(todo), DotJson)
        /\ staging[Head(todo)].json)
       => LET file == Head(todo)
              text == staging[file]
          IN  /\ file \notin DOMAIN staging'
              /\ IF C7_Valid(text.value)
                 THEN \E f \in DOMAIN dataset' :
                        /\ dataset'[f] = text
                        /\ DOMAIN dataset' = DOMAIN dataset \cup {f}
                 ELSE dataset' = dataset]_vars

\* a run has deleted an invalid staged record and moved a valid one
C7_Witness ==
    /\ pc = "done"
    /\ Logged("Deleting invalid file")
    /\ Logged("Moved valid file")

\* C8: when the count returned is 0, as it is for every empty catalog, the
\* run is over with that step: the crawler never handles a request, ./storage
\* is absent whether or not it existed, and the datasets folder is as before.
C8_ZeroModeLeavesDataset ==
    [][/\ (apis' = <<>> /\ returnedCount' >= 0) => returnedCount' = 0
       /\ returnedCount' = 0 =>
            /\ pc' = "done"
            /\ storage' = 0
            /\ datasetExists' = datasetExists
            /\ dataset' = dataset
            /\ \A i \in DOMAIN task' : task'[i] = NotHandled]_vars

\* zero mode has removed an existing ./storage next to a datasets folder
\* that holds records
C8_Witness ==
    /\ returnedCount = 0
    /\ pc = "done"
    /\ Logged("Deleted the storage folder since no requests were enqueued.")
    /\ dataset # EmptyDir

\* C9: once the catalog is loaded, no error leaves scrapeDocs: the run is
\* never ended by an exception.
C9_NoErrorAbortsRun == pc # "aborted"

\* C10: after a completed run, every entry that was allowed, fetched and
\* valid has its record in the datasets folder.
C10_OneRecordPerApi ==
    pc = "done" =>
        \A i \in DOMAIN task :
            (/\ task[i].state = "handled"
             /\ C7_Valid(PageRecord(i, task[i].page)))
            => \E f \in DOMAIN dataset :
                    dataset[f] = JSONStringify(PageRecord(i, task[i].page))


\* C11: a robots.txt that never answers does not block the run: every
\* check ends and checkRobotsAndEnqueue returns for every catalog.
C11_EnqueueAlwaysReturns ==
    <>(pc = "failed" \/ (returnedCount >= 0 /\ \A i \in DOMAIN st : st[i] = "done"))


\* C12: the crawler runs only after checkRobotsAndEnqueue has returned a
\* count other than 0, with every check completed; cleanUpAndMoveFiles starts
\* only when every request of the crawler is settled; and from then on no
\* request is handled and no file is written to the staging area.
C12_PhasesStrictlyOrdered ==
    [][/\ pc' = "run" =>
            /\ returnedCount' > 0
            /\ \A i \in DOMAIN st' : st'[i] = "done"
       /\ (\E i \in DOMAIN task' : task'[i] # NotHandled) => returnedCount' > 0
       /\ pc' \in {"curate", "done", "aborted"} =>
            /\ pendingAdd' = {}
            /\ \A i \in queue' : task'[i] # NotHandled
       /\ pc \in {"curate", "done", "aborted"} =>
            /\ task' = task
            /\ DOMAIN staging' \subseteq DOMAIN staging
            /\ \A f \in DOMAIN staging' : staging'[f] = staging[f]]_vars

\* curation has started after a crawl in which a request was handled and
\* another failed
C12_Witness ==
    /\ pc = "curate"
    /\ todo # <<>>
    /\ \E i \in DOMAIN task : task[i].state = "handled"
    /\ \E i \in DOMAIN task : task[i].state = "failed"


\* C13: during the forEach a staged file that does not parse stays in the
\* staging area, unchanged, and is not in the datasets folder; every file
\* that parses and whose turn has passed is gone from the staging area,
\* wherever the file that does not parse came in the listing.
C13_CorruptLeftOthersProcessed ==
    pc = "curate" =>
        LET waiting == {todo[k] : k \in DOMAIN todo}
        IN  /\ waiting \subseteq DOMAIN staging
            /\ \A f \in DOMAIN staging : f \notin waiting => ParseThrows(staging[f])
            /\ \A l \in log :
                 l.msg = "Error reading or parsing file" =>
                    /\ l.file \in DOMAIN staging
                    /\ staging[l.file] = CorruptText
                    /\ l.file \notin DOMAIN dataset

\* the forEach is over: the file that does not parse is still staged, a
\* valid record was moved and an invalid one deleted
C13_Witness ==
    /\ pc = "curate"
    /\ todo = <<>>
    /\ DOMAIN staging = {OldJson}
    /\ Logged("Error reading or parsing file")
    /\ Logged("Moved valid file")
    /\ Logged("Deleting invalid file")


\* C14 as stated: when the forEach left a staged file behind that did not
\* parse, the final removal of ./storage fails: the error is logged and the
\* staging area with the file remains.
C14_RemovalFailsOnLeftover ==
    (pc = "done" /\ Logged("Error reading or parsing file")) =>
        /\ Logged("Error deleting the storage folder")
        /\ storage = 3
        /\ \E f \in DOMAIN staging : ParseThrows(staging[f])

\* C14 as amended: when the forEach left a staged file behind that did not
\* parse, the final removal of ./storage succeeds all the same: the file is
\* removed with the folder, the removal is logged as done, and no removal
\* error is logged.
C14_RemovalDestroysLeftover ==
    (pc = "done" /\ Logged("Error reading or parsing file")) =>
        /\ storage = 0
        /\ staging = EmptyDir
        /\ Logged("Deleted the storage folder after moving valid files.")
        /\ ~Logged("Error deleting the storage folder")
        /\ \A f \in DOMAIN dataset : ~ParseThrows(dataset[f])

\* a run has completed whose forEach met a file that did not parse
C14_Witness ==
    /\ pc = "done"
    /\ Logged("Error reading or parsing file")
    /\ ~Logged("Moved valid file")


\* C15: the step in which a request fails changes nothing but that
\* request's state and the console: the staging area, the datasets folder,
\* the counts, the other requests and the position of scrapeDocs are as
\* before. A failed request has no record in the staging area; the requests
\* not yet handled can still be handled; and once all are settled
\* crawler.run() can return, so that cleanUpAndMoveFiles is called.
C15_FailureOnlyLogs ==
    [][/\ \A i \in DOMAIN task :
            (i \in DOMAIN task' /\ task[i] = NotHandled /\ task'[i].state = "failed") =>
                /\ storage' = storage
                /\ staging' = staging
                /\ datasetExists' = datasetExists
                /\ dataset' = dataset
                /\ enqueuedCount' = enqueuedCount
                /\ returnedCount' = returnedCount
                /\ queue' = queue
                /\ pc' = pc
                /\ \A j \in DOMAIN task : j # i => task'[j] = task[j]
       /\ \A i \in DOMAIN task :
            task[i].state = "failed" =>
                /\ \A f \in DOMAIN staging :
                      staging[f].value.apiName # apis[i].API_Name
                /\ \A j \in queue : task[j] = NotHandled => ENABLED FetchOk(j)
                /\ (pc = "run" /\ pendingAdd = {}
                      /\ \A j \in queue : task[j] # NotHandled) => ENABLED RunReturn]_vars

\* one request has failed and another was handled after it: its record is
\* staged and curation has begun
C15_Witness ==
    /\ pc = "curate"
    /\ \E i, j \in DOMAIN task :
          /\ task[i].state = "failed"
          /\ task[j].state = "handled"
          /\ StagedName(apis[j].API_Name) \in DOMAIN staging
    /\ Logged("Failed to scrape: " \o FetchError)

\* C16: the step in which requestHandler stores a document leaves the
\* staging area in existence, with every other file as it was, and with the
\* document's file holding exactly the record of this invocation; while the
\* staging area exists no invocation fails on creating it; and every staged
\* file that an invocation wrote is the whole record of one handled request.
C16_StagedFilesAreWholeRecords ==
    [][/\ \A i \in DOMAIN task :
            (i \in DOMAIN task' /\ task[i] = NotHandled /\ task'[i].state = "handled") =>
                LET file   == StagedName(apis[i].API_Name)
                    record == [apiName |-> apis[i].API_Name,
                               url     |-> apis[i].Official_Documentation_URL,
                               title   |-> task'[i].page.title,
                               content |-> task'[i].page.content]
                IN  /\ storage' = 3
                    /\ DOMAIN staging' = DOMAIN staging \cup {file}
                    /\ staging'[file] = [json |-> TRUE, value |-> record]
                    /\ \A g \in DOMAIN staging : g # file => staging'[g] = staging[g]
       /\ storage' = 3 => \A l \in log' : l.msg # "Failed to scrape: " \o MkdirError
       /\ pc' = "run" =>
            \A f \in DOMAIN staging' :
                \/ f = OldJson /\ staging'[f] = CorruptText
                \/ \E i \in DOMAIN task' :
                      /\ task'[i].state = "handled"
                      /\ f = StagedName(apis'[i].API_Name)
                      /\ staging'[f] =
                            [json |-> TRUE,
                             value |-> [apiName |-> apis'[i].API_Name,
                                        url     |-> apis'[i].Official_Documentation_URL,
                                        title   |-> task'[i].page.title,
                                        content |-> task'[i].page.content]]]_vars

\* two invocations wrote the same file name: the file holds the record of
\* one of them, next to the file an earlier run left
C16_Witness ==
    /\ pc = "run"
    /\ Cardinality({i \in DOMAIN task : task[i].state = "handled"}) = 2
    /\ DOMAIN staging = {OldJson, ABJson}

\* C17: when checkRobotsAndEnqueue has returned its count, every
\* crawler.addRequests call made for an allowed entry has settled.
C17_RegisteredBeforeReturn ==
    returnedCount >= 0 => pendingAdd = {}

====
